---- MODULE Spec2Model ----
(***************************************************************************)
(* Model of the taxi ETL pipeline of src/main.py: read_csv,               *)
(* datetime_conversion, dtype_optimization, creating_dimensions,          *)
(* creating_facts and the orchestration under __main__, together with the *)
(* boolean contract of load_dataframe_to_bigquery (src/bq_load.py).       *)
(*                                                                         *)
(* A cell of a table is <<>> (NaN / NaT / None) or <<x>> (the value x).   *)
(* A table is [columns, dtypes, rows]: the column order, the dtype of     *)
(* every column and the rows (functions from column name to cell).        *)
(* Tables are objects on a heap and the program's names hold references,  *)
(* so that in-place assignment (df[col] = ...) is visible to every holder.*)
(*                                                                         *)
(* Numbers: a float cell holds a whole number, so a float32 narrowing is  *)
(* exact below 2^24 and off by at least 1 above it (the code accepts a    *)
(* narrowing only within 5e-4); trip_duration_minutes is held in          *)
(* hundredths of a minute. Integer cells stay within 32 bits, so a column *)
(* that has to remain int64 does not occur. Instants are seconds after    *)
(* 2023-01-01T00:00:00 and stay within January 2023.                      *)
(***************************************************************************)
EXTENDS Integers, Sequences, FiniteSets, TLC

VARIABLES pc, file, heap, df, dimensions, optimized_dimensions, facts,
          optimized_fact_trips, status, warehouse, log, it, uncaught

vars == <<pc, file, heap, df, dimensions, optimized_dimensions, facts,
          optimized_fact_trips, status, warehouse, log, it, uncaught>>

----------------------------------------------------------------------------
(* Bounds of the model *)

MaxRows == 2
MaxSecs == 6

----------------------------------------------------------------------------
(* Cells *)

NaN == <<>>
V(x) == <<x>>
IsNull(c) == c = <<>>
None == 0

RECURSIVE SeqToSet(_)
SeqToSet(s) == IF s = <<>> THEN {} ELSE {Head(s)} \cup SeqToSet(Tail(s))

Contains(s, x) == \E k \in 1..Len(s) : s[k] = x

Restrict(f, S) == [x \in S |-> f[x]]

Extend(f, k, v) == [x \in (DOMAIN f) \cup {k} |-> IF x = k THEN v ELSE f[x]]

----------------------------------------------------------------------------
(* Python dicts: insertion-ordered sequences of <<key, value>> entries *)

EmptyDict == <<>>
Keys(d) == {d[k][1] : k \in 1..Len(d)}
HasKey(d, key) == \E k \in 1..Len(d) : d[k][1] = key
Get(d, key) == d[CHOOSE k \in 1..Len(d) : d[k][1] = key][2]
Put(d, key, val) ==
    IF HasKey(d, key)
    THEN [k \in 1..Len(d) |-> IF d[k][1] = key THEN <<key, val>> ELSE d[k]]
    ELSE Append(d, <<key, val>>)

----------------------------------------------------------------------------
(* The input file: datasets/taxi_data.csv *)

RawColumns ==
    << "VendorID", "tpep_pickup_datetime", "tpep_dropoff_datetime",
       "passenger_count", "trip_distance", "pickup_longitude",
       "pickup_latitude", "RatecodeID", "store_and_fwd_flag",
       "dropoff_longitude", "dropoff_latitude", "payment_type",
       "fare_amount", "extra", "mta_tax", "tip_amount", "tolls_amount",
       "improvement_surcharge", "total_amount" >>

DatetimeColumns == << "tpep_pickup_datetime", "tpep_dropoff_datetime" >>

IntCsvColumns == {"VendorID", "passenger_count", "RatecodeID", "payment_type"}
TextCsvColumns == {"tpep_pickup_datetime", "tpep_dropoff_datetime",
                   "store_and_fwd_flag"}

(* A timestamp text is modelled by the number of seconds after            *)
(* 2023-01-01T00:00:00 that it spells; BadText is a text that is no       *)
(* timestamp.                                                              *)
BadText == -1

DefaultRow ==
    [ VendorID |-> V(1), tpep_pickup_datetime |-> V(0),
      tpep_dropoff_datetime |-> V(750), passenger_count |-> V(1),
      trip_distance |-> V(2), pickup_longitude |-> V(-74),
      pickup_latitude |-> V(40), RatecodeID |-> V(1),
      store_and_fwd_flag |-> V("N"), dropoff_longitude |-> V(-73),
      dropoff_latitude |-> V(41), payment_type |-> V(1),
      fare_amount |-> V(12), extra |-> V(0), mta_tax |-> V(0),
      tip_amount |-> V(3), tolls_amount |-> V(0),
      improvement_surcharge |-> V(0), total_amount |-> V(15) ]

VendorCodes == {1, 99}
RatecodeCodes == {1, 7}
PaymentCodes == {2, 9}
PickupTexts == {0, 750}
DropoffTexts == {0, 750, BadText}
Latitudes == {40, 41}
Longitudes == {-74, -73}
PassengerCounts == {1, 300, 70000}
TotalAmounts == {15, 16777217}

CodeRows ==
    { [DefaultRow EXCEPT !.VendorID = V(v), !.RatecodeID = V(r)] :
        v \in VendorCodes, r \in RatecodeCodes }

PaymentRows ==
    { [DefaultRow EXCEPT !.payment_type = V(p), !.store_and_fwd_flag = V("Y")] :
        p \in PaymentCodes }

StampRows ==
    { [DefaultRow EXCEPT !.tpep_pickup_datetime = V(a),
                         !.tpep_dropoff_datetime = V(b)] :
        a \in PickupTexts, b \in DropoffTexts }

PickupRows ==
    { [DefaultRow EXCEPT !.pickup_latitude = V(a), !.pickup_longitude = V(b)] :
        a \in Latitudes, b \in Longitudes }

DropoffRows ==
    { [DefaultRow EXCEPT !.dropoff_latitude = V(a), !.dropoff_longitude = V(b)] :
        a \in Latitudes, b \in Longitudes }

MeasureRows ==
    { [DefaultRow EXCEPT !.passenger_count = V(a)] : a \in PassengerCounts }
    \cup { [DefaultRow EXCEPT !.total_amount = V(b)] : b \in TotalAmounts }

DurationRows ==
    { [DefaultRow EXCEPT !.tpep_pickup_datetime = V(a),
                         !.tpep_dropoff_datetime = V(b)] :
        a \in (0..MaxSecs) \cup {BadText}, b \in (0..MaxSecs) \cup {750} }

SeqsUpTo(S, n) == UNION { [1..k -> S] : k \in 0..n }

DroppableColumns == {"VendorID", "tpep_dropoff_datetime", "pickup_longitude",
                     "RatecodeID", "payment_type", "fare_amount"}

RECURSIVE Without(_, _)
Without(s, x) ==
    IF s = <<>> THEN <<>>
    ELSE IF Head(s) = x THEN Without(Tail(s), x)
    ELSE <<Head(s)>> \o Without(Tail(s), x)

CsvFile(columns, rows) ==
    [ columns |-> columns,
      rows |-> [k \in 1..Len(rows) |-> Restrict(rows[k], SeqToSet(columns))] ]

NoFile == [ columns |-> <<>>, rows |-> <<"missing">> ]

Files ==
    { CsvFile(RawColumns, rows) :
        rows \in SeqsUpTo(CodeRows, MaxRows) \cup SeqsUpTo(PaymentRows, MaxRows)
                 \cup SeqsUpTo(StampRows, MaxRows)
                 \cup SeqsUpTo(PickupRows, MaxRows)
                 \cup SeqsUpTo(DropoffRows, MaxRows)
                 \cup SeqsUpTo(MeasureRows, MaxRows)
                 \cup SeqsUpTo(DurationRows, 1) }
    \cup { CsvFile(Without(RawColumns, c), rows) :
             c \in DroppableColumns, rows \in SeqsUpTo({DefaultRow}, MaxRows) }
    \cup { NoFile }

----------------------------------------------------------------------------
(* Logging: only the records that the properties speak about are kept *)

LogRec(level, stage, what) == [level |-> level, stage |-> stage, what |-> what]

(* An exception that no handler catches ends the process *)
Raise(stage, what) == [stage |-> stage, what |-> what]
NoException == Raise("", "")

(* The value of the name facts before creating_facts has run *)
NoFacts == [kind |-> "unbound", items |-> <<>>, ref |-> 0]

----------------------------------------------------------------------------
(* read_csv *)

InferDtype(col, rows) ==
    IF rows = <<>> THEN "object"
    ELSE IF col \in TextCsvColumns THEN "object"
    ELSE IF col \in IntCsvColumns /\ \A k \in 1..Len(rows) : ~IsNull(rows[k][col])
         THEN "int64"
    ELSE "float64"

pd_read_csv(f) ==
    [ columns |-> f.columns,
      dtypes |-> [c \in SeqToSet(f.columns) |-> InferDtype(c, f.rows)],
      rows |-> f.rows ]

Init ==
    /\ pc = "read_csv"
    /\ file \in Files
    /\ heap = <<>>
    /\ df = None
    /\ dimensions = EmptyDict
    /\ optimized_dimensions = EmptyDict
    /\ facts = NoFacts
    /\ optimized_fact_trips = EmptyDict
    /\ status = <<>>
    /\ warehouse = <<>>
    /\ log = <<>>
    /\ it = 0
    /\ uncaught = NoException

read_csv_ok ==
    /\ pc = "read_csv"
    /\ file # NoFile
    /\ heap' = Append(heap, pd_read_csv(file))
    /\ df' = Len(heap) + 1
    /\ pc' = "datetime_conversion"
    /\ UNCHANGED <<file, dimensions, optimized_dimensions, facts,
                   optimized_fact_trips, status, warehouse, log, it, uncaught>>

read_csv_missing ==
    /\ pc = "read_csv"
    /\ file = NoFile
    /\ log' = Append(log, LogRec("error", "read_csv", "not found"))
    /\ df' = None
    /\ pc' = "done"
    /\ UNCHANGED <<file, heap, dimensions, optimized_dimensions, facts,
                   optimized_fact_trips, status, warehouse, it, uncaught>>

----------------------------------------------------------------------------
(* datetime_conversion *)

pd_to_datetime(c) ==
    IF IsNull(c) THEN NaN
    ELSE IF c[1] = BadText THEN NaN
    ELSE V(c[1])

SetColumn(t, col, dtype, cells) ==
    [ columns |-> IF Contains(t.columns, col) THEN t.columns
                  ELSE Append(t.columns, col),
      dtypes |-> Extend(t.dtypes, col, dtype),
      rows |-> [k \in 1..Len(t.rows) |-> Extend(t.rows[k], col, cells[k])] ]

Column(t, col) == [k \in 1..Len(t.rows) |-> t.rows[k][col]]

HasColumn(t, col) == Contains(t.columns, col)

RECURSIVE datetime_conversion(_, _)
datetime_conversion(t, columns) ==
    IF columns = <<>> THEN [table |-> t, errors |-> <<>>]
    ELSE LET col == Head(columns)
             t1 == IF HasColumn(t, col)
                   THEN SetColumn(t, col, "datetime64[ns]",
                            [k \in 1..Len(t.rows) |-> pd_to_datetime(t.rows[k][col])])
                   ELSE t
             e1 == IF HasColumn(t, col) THEN <<>>
                   ELSE <<LogRec("error", "datetime_conversion", col)>>
             rest == datetime_conversion(t1, Tail(columns))
         IN [table |-> rest.table, errors |-> e1 \o rest.errors]

main_datetime_conversion ==
    /\ pc = "datetime_conversion"
    /\ LET r == datetime_conversion(heap[df], DatetimeColumns)
       IN /\ heap' = [heap EXCEPT ![df] = r.table]
          /\ log' = log \o r.errors
    /\ df' = df
    /\ pc' = "dtype_optimization"
    /\ UNCHANGED <<file, dimensions, optimized_dimensions, facts,
                   optimized_fact_trips, status, warehouse, it, uncaught>>

----------------------------------------------------------------------------
(* dtype_optimization *)

Abs(x) == IF x < 0 THEN -x ELSE x

nunique(cells) ==
    Cardinality({cells[k] : k \in {j \in 1..Len(cells) : ~IsNull(cells[j])}})

IntTypes == <<"int8", "int16", "int32", "int64">>

FitsInt(x, dtype) ==
    CASE dtype = "int8" -> x >= -128 /\ x <= 127
      [] dtype = "int16" -> x >= -32768 /\ x <= 32767
      [] dtype = "int32" -> x >= -2147483647 - 1 /\ x <= 2147483647
      [] OTHER -> TRUE

RECURSIVE DowncastInteger(_, _)
DowncastInteger(cells, typecodes) ==
    IF Len(typecodes) = 1 THEN Head(typecodes)
    ELSE IF \A k \in 1..Len(cells) : FitsInt(cells[k][1], Head(typecodes))
         THEN Head(typecodes)
    ELSE DowncastInteger(cells, Tail(typecodes))

RECURSIVE BitLen(_)
BitLen(n) == IF n = 0 THEN 0 ELSE 1 + BitLen(n \div 2)

Float32MantissaBits == 24

RoundHalfEven(num, den) ==
    LET q == num \div den
        r == num % den
    IN IF 2 * r < den THEN q
       ELSE IF 2 * r > den THEN q + 1
       ELSE IF q % 2 = 0 THEN q ELSE q + 1

ToFloat32(x) ==
    LET bits == BitLen(Abs(x))
    IN IF bits <= Float32MantissaBits THEN x
       ELSE LET ulp == 2 ^ (bits - Float32MantissaBits)
            IN ulp * RoundHalfEven(x, ulp)

AstypeFloat32(c) == IF IsNull(c) THEN NaN ELSE V(ToFloat32(c[1]))

AllClose(a, b) ==
    \A k \in 1..Len(a) :
        \/ IsNull(a[k]) /\ IsNull(b[k])
        \/ ~IsNull(a[k]) /\ ~IsNull(b[k]) /\ 10000 * Abs(a[k][1] - b[k][1]) <= 5

DowncastFloat(cells) ==
    LET narrowed == [k \in 1..Len(cells) |-> AstypeFloat32(cells[k])]
    IN IF AllClose(narrowed, cells)
       THEN [dtype |-> "float32", cells |-> narrowed]
       ELSE [dtype |-> "float64", cells |-> cells]

OptimizeColumn_one_step(t, col) ==
    LET cells == Column(t, col)
        fits(dtype) == \A k \in 1..Len(cells) : FitsInt(cells[k][1], dtype)
    IN CASE t.dtypes[col] = "object" ->
              IF 20 * nunique(cells) < Len(t.rows)
              THEN SetColumn(t, col, "category", cells)
              ELSE t
         [] t.dtypes[col] = "int64" /\ fits("int32") -> SetColumn(t, col, "int32", cells)
         [] t.dtypes[col] = "int32" /\ fits("int16") -> SetColumn(t, col, "int16", cells)
         [] t.dtypes[col] = "int16" /\ fits("int8") -> SetColumn(t, col, "int8", cells)
         [] t.dtypes[col] = "float64" ->
              LET d == DowncastFloat(cells)
              IN SetColumn(t, col, d.dtype, d.cells)
         [] OTHER -> t

OptimizeColumn(t, col) ==
    LET cells == Column(t, col)
    IN CASE t.dtypes[col] = "object" ->
              IF 20 * nunique(cells) < Len(t.rows)
              THEN SetColumn(t, col, "category", cells)
              ELSE t
         [] t.dtypes[col] = "int64" ->
              SetColumn(t, col, DowncastInteger(cells, IntTypes), cells)
         [] t.dtypes[col] = "float64" ->
              LET d == DowncastFloat(cells)
              IN SetColumn(t, col, d.dtype, d.cells)
         [] OTHER -> t

ZeroDivision(t, col) == t.dtypes[col] = "object" /\ Len(t.rows) = 0

RECURSIVE OptimizeColumns(_, _)
OptimizeColumns(t, columns) ==
    IF columns = <<>> THEN [ok |-> TRUE, table |-> t, column |-> ""]
    ELSE IF ZeroDivision(t, Head(columns))
         THEN [ok |-> FALSE, table |-> t, column |-> Head(columns)]
    ELSE OptimizeColumns(OptimizeColumn(t, Head(columns)), Tail(columns))

dtype_optimization(t) == OptimizeColumns(t, t.columns)


main_dtype_optimization ==
    /\ pc = "dtype_optimization"
    /\ LET r == dtype_optimization(heap[df])
       IN /\ heap' = [heap EXCEPT ![df] = r.table]
          /\ IF r.ok
             THEN pc' = "creating_dimensions" /\ uncaught' = uncaught
             ELSE pc' = "crashed"
                  /\ uncaught' = Raise("dtype_optimization", r.column)
    /\ df' = df
    /\ UNCHANGED <<file, dimensions, optimized_dimensions, facts,
                   optimized_fact_trips, status, warehouse, log, it>>

----------------------------------------------------------------------------
(* creating_dimensions *)

vendor_dict ==
    (1 :> "Creative Mobile Technologies, LLC") @@ (2 :> "Curb Mobility, LLC")
    @@ (6 :> "Myle Technologies Inc") @@ (7 :> "Helix")

ratecode_dict ==
    (1 :> "Standard") @@ (2 :> "JFK") @@ (3 :> "Newark") @@ (4 :> "LaGuardia")
    @@ (5 :> "Negotiated Fare") @@ (6 :> "Group ride") @@ (99 :> "Unknown")

payment_dict ==
    (0 :> "Flex Fare trip") @@ (1 :> "Credit Card") @@ (2 :> "Cash")
    @@ (3 :> "No charge") @@ (4 :> "Dispute") @@ (5 :> "Unknown")
    @@ (6 :> "Voided_trip")

MapDict_default_label(c, dict) ==
    IF IsNull(c) THEN NaN
    ELSE IF c[1] \in DOMAIN dict THEN V(dict[c[1]])
    ELSE V("Unknown")

MapDict(c, dict) ==
    IF IsNull(c) THEN NaN
    ELSE IF c[1] \in DOMAIN dict THEN V(dict[c[1]])
    ELSE NaN

(* df[[c1, ..]] : the rows projected on the listed columns *)
Project(t, cols) ==
    [k \in 1..Len(t.rows) |-> Restrict(t.rows[k], SeqToSet(cols))]

drop_duplicates_keep_all(rows) == rows

RECURSIVE drop_duplicates(_)
drop_duplicates(rows) ==
    IF rows = <<>> THEN <<>>
    ELSE LET init == drop_duplicates(SubSeq(rows, 1, Len(rows) - 1))
             last == rows[Len(rows)]
         IN IF Contains(init, last) THEN init ELSE Append(init, last)

(* reset_index(drop=True) then reset_index(names=key): the 0-based row     *)
(* position becomes the first column                                       *)
reset_index(rows, key) ==
    [k \in 1..Len(rows) |-> Extend(rows[k], key, V(k - 1))]

DimTable(t, natural, key) ==
    [ columns |-> <<key>> \o natural,
      dtypes |-> Extend(Restrict(t.dtypes, SeqToSet(natural)), key, "int64"),
      rows |-> reset_index(drop_duplicates(Project(t, natural)), key) ]

CodedDimension(t, col, key, label, dict) ==
    LET d == DimTable(t, <<col>>, key)
    IN SetColumn(d, label, "object",
                 [k \in 1..Len(d.rows) |-> MapDict(d.rows[k][col], dict)])

(* Calendar fields of an instant, counted in seconds after                 *)
(* 2023-01-01T00:00:00 (a Sunday); exact for instants of January 2023.     *)
SecondsPerHour == 3600
SecondsPerDay == 86400
DayNames == <<"Monday", "Tuesday", "Wednesday", "Thursday", "Friday",
              "Saturday", "Sunday">>
DayIndex(s) == s \div SecondsPerDay
WeekdayOf(s) == (6 + DayIndex(s)) % 7

CalendarColumns == <<"hour", "date", "day", "day_of_week", "day_name", "year",
                     "month_name", "weekday", "is_weekend", "quarter", "month">>

CalendarField(c, field) ==
    IF IsNull(c)
    THEN (IF field = "is_weekend" THEN V(FALSE) ELSE NaN)
    ELSE CASE field = "hour" -> V((c[1] \div SecondsPerHour) % 24)
           [] field = "date" -> V(DayIndex(c[1]))
           [] field = "day" -> V(1 + DayIndex(c[1]))
           [] field = "day_of_week" -> V(WeekdayOf(c[1]))
           [] field = "day_name" -> V(DayNames[WeekdayOf(c[1]) + 1])
           [] field = "year" -> V(2023)
           [] field = "month_name" -> V("January")
           [] field = "weekday" -> V(WeekdayOf(c[1]))
           [] field = "is_weekend" -> V(WeekdayOf(c[1]) \in {5, 6})
           [] field = "quarter" -> V(1)
           [] field = "month" -> V(1)

CalendarDtype(cells, field) ==
    CASE field \in {"date", "day_name", "month_name"} -> "object"
      [] field = "is_weekend" -> "bool"
      [] OTHER -> IF \E k \in 1..Len(cells) : IsNull(cells[k])
                  THEN "float64" ELSE "int32"

RECURSIVE AddCalendar(_, _)
AddCalendar(d, fields) ==
    IF fields = <<>> THEN d
    ELSE LET stamps == Column(d, "full_datetime")
             d1 == SetColumn(d, Head(fields), CalendarDtype(stamps, Head(fields)),
                      [k \in 1..Len(stamps) |-> CalendarField(stamps[k], Head(fields))])
         IN AddCalendar(d1, Tail(fields))

ConcatStamps_pickup_only(t) ==
    [ columns |-> <<"full_datetime">>,
      dtypes |-> [c \in {"full_datetime"} |-> "datetime64[ns]"],
      rows |-> [k \in 1..Len(t.rows) |->
                  [c \in {"full_datetime"} |-> t.rows[k]["tpep_pickup_datetime"]]] ]

(* pd.concat([pickup, dropoff]) as the one column full_datetime *)
ConcatStamps(t) ==
    [ columns |-> <<"full_datetime">>,
      dtypes |-> [c \in {"full_datetime"} |-> "datetime64[ns]"],
      rows |-> [k \in 1..(2 * Len(t.rows)) |->
                  [c \in {"full_datetime"} |->
                     IF k <= Len(t.rows)
                     THEN t.rows[k]["tpep_pickup_datetime"]
                     ELSE t.rows[k - Len(t.rows)]["tpep_dropoff_datetime"]]] ]

DatetimeDimension(t) ==
    AddCalendar(DimTable(ConcatStamps(t), <<"full_datetime">>, "dim_datetime_key"),
                CalendarColumns)

DimensionNames ==
    <<"dim_vendor", "dim_datetime", "dim_pickup_location",
      "dim_dropoff_location", "dim_ratecode", "dim_payment_type">>

(* the raw columns each dimension reads, in the order the code reads them *)
SourceColumns(name) ==
    CASE name = "dim_vendor" -> <<"VendorID">>
      [] name = "dim_datetime" -> <<"tpep_pickup_datetime", "tpep_dropoff_datetime">>
      [] name = "dim_pickup_location" -> <<"pickup_latitude", "pickup_longitude">>
      [] name = "dim_dropoff_location" -> <<"dropoff_latitude", "dropoff_longitude">>
      [] name = "dim_ratecode" -> <<"RatecodeID">>
      [] name = "dim_payment_type" -> <<"payment_type">>

SurrogateKey(name) ==
    IF name = "dim_datetime" THEN "dim_datetime_key"
    ELSE IF name = "dim_vendor" THEN "dim_vendor_key"
    ELSE IF name = "dim_pickup_location" THEN "dim_pickup_location_key"
    ELSE IF name = "dim_dropoff_location" THEN "dim_dropoff_location_key"
    ELSE IF name = "dim_ratecode" THEN "dim_ratecode_key"
    ELSE "dim_payment_type_key"

NaturalKey(name) ==
    IF name = "dim_datetime" THEN <<"full_datetime">> ELSE SourceColumns(name)

BuildDimension(t, name) ==
    CASE name = "dim_vendor" ->
           CodedDimension(t, "VendorID", "dim_vendor_key", "vendor_name", vendor_dict)
      [] name = "dim_datetime" -> DatetimeDimension(t)
      [] name = "dim_pickup_location" ->
           DimTable(t, SourceColumns(name), "dim_pickup_location_key")
      [] name = "dim_dropoff_location" ->
           DimTable(t, SourceColumns(name), "dim_dropoff_location_key")
      [] name = "dim_ratecode" ->
           CodedDimension(t, "RatecodeID", "dim_ratecode_key",
                          "ratecode_description", ratecode_dict)
      [] name = "dim_payment_type" ->
           CodedDimension(t, "payment_type", "dim_payment_type_key",
                          "payment_type_description", payment_dict)

MissingColumns(t, cols) == {c \in SeqToSet(cols) : ~HasColumn(t, c)}

FirstMissing(t, cols) ==
    cols[CHOOSE k \in 1..Len(cols) :
            /\ ~HasColumn(t, cols[k])
            /\ \A j \in 1..(k - 1) : HasColumn(t, cols[j])]

(* One try block around the six dimensions: the first KeyError discards    *)
(* the dimensions built so far and the function returns {}                 *)
RECURSIVE BuildDimensions(_, _, _)
BuildDimensions(t, names, built) ==
    IF names = <<>> THEN [ok |-> TRUE, tables |-> built, what |-> ""]
    ELSE IF MissingColumns(t, SourceColumns(Head(names))) # {}
         THEN [ok |-> FALSE, tables |-> EmptyDict,
               what |-> FirstMissing(t, SourceColumns(Head(names)))]
    ELSE BuildDimensions(t, Tail(names),
             Put(built, Head(names), BuildDimension(t, Head(names))))

creating_dimensions(t) == BuildDimensions(t, DimensionNames, EmptyDict)

(* allocate the tables of a dict on the heap; the dict then holds references *)
Allocate(h, tables) == h \o [k \in 1..Len(tables) |-> tables[k][2]]
Refs(h, tables) == [k \in 1..Len(tables) |-> <<tables[k][1], Len(h) + k>>]

main_creating_dimensions ==
    /\ pc = "creating_dimensions"
    /\ LET r == creating_dimensions(heap[df])
       IN /\ heap' = Allocate(heap, r.tables)
          /\ dimensions' = Refs(heap, r.tables)
          /\ log' = IF r.ok THEN log
                    ELSE Append(log, LogRec("error", "creating_dimensions", r.what))
    /\ it' = 1
    /\ pc' = "optimize_dimensions"
    /\ UNCHANGED <<file, df, optimized_dimensions, facts, optimized_fact_trips,
                   status, warehouse, uncaught>>

(* for dim_name, dim in dimensions.items(): dtype_optimization(dim) *)
main_optimize_dimension ==
    /\ pc = "optimize_dimensions"
    /\ it <= Len(dimensions)
    /\ LET name == dimensions[it][1]
           ref == dimensions[it][2]
           r == dtype_optimization(heap[ref])
       IN /\ heap' = [heap EXCEPT ![ref] = r.table]
          /\ IF r.ok
             THEN /\ optimized_dimensions' = Put(optimized_dimensions, name, ref)
                  /\ it' = it + 1
                  /\ UNCHANGED <<pc, uncaught>>
             ELSE /\ pc' = "crashed"
                  /\ uncaught' = Raise("dtype_optimization", r.column)
                  /\ UNCHANGED <<optimized_dimensions, it>>
    /\ UNCHANGED <<file, df, dimensions, facts, optimized_fact_trips, status,
                   warehouse, log>>

main_dimensions_optimized ==
    /\ pc = "optimize_dimensions"
    /\ it > Len(dimensions)
    /\ pc' = "creating_facts"
    /\ UNCHANGED <<file, heap, df, dimensions, optimized_dimensions, facts,
                   optimized_fact_trips, status, warehouse, log, it, uncaught>>

----------------------------------------------------------------------------
(* creating_facts *)

MeasureColumns ==
    <<"passenger_count", "trip_distance", "fare_amount", "extra", "mta_tax",
      "tip_amount", "tolls_amount", "improvement_surcharge", "total_amount">>

(* the foreign keys in the order the code fills them:                      *)
(* <<fact column, raw columns read, dimension looked up>>                  *)
ForeignKeys ==
    << <<"dim_vendor_key", <<"VendorID">>, "dim_vendor">>,
       <<"pickup_datetime_key", <<"tpep_pickup_datetime">>, "dim_datetime">>,
       <<"dropoff_datetime_key", <<"tpep_dropoff_datetime">>, "dim_datetime">>,
       <<"dim_pickup_location_key", <<"pickup_latitude", "pickup_longitude">>,
         "dim_pickup_location">>,
       <<"dim_dropoff_location_key", <<"dropoff_latitude", "dropoff_longitude">>,
         "dim_dropoff_location">>,
       <<"dim_ratecode_key", <<"RatecodeID">>, "dim_ratecode">>,
       <<"dim_payment_type_key", <<"payment_type">>, "dim_payment_type">> >>

(* Series.map(dim.set_index(natural)[key]): the key of the dimension row   *)
(* whose natural key equals the raw values, NaN when there is none         *)
MapKey_position(dim, natural, key, values) ==
    LET hits == {k \in 1..Len(dim.rows) :
                    \A j \in 1..Len(natural) : dim.rows[k][natural[j]] = values[j]}
    IN IF hits = {} THEN NaN
       ELSE V(CHOOSE k \in hits : \A m \in hits : k <= m)

MapKey(dim, natural, key, values) ==
    LET hits == {k \in 1..Len(dim.rows) :
                    \A j \in 1..Len(natural) : dim.rows[k][natural[j]] = values[j]}
    IN IF hits = {} THEN NaN
       ELSE dim.rows[CHOOSE k \in hits : \A m \in hits : k <= m][key]

MappedDtype(cells, dim, key) ==
    IF \E k \in 1..Len(cells) : IsNull(cells[k]) THEN "float64" ELSE dim.dtypes[key]

ForeignKeyCells(t, dim, fk) ==
    [k \in 1..Len(t.rows) |->
        MapKey(dim, NaturalKey(fk[3]), SurrogateKey(fk[3]),
               [j \in 1..Len(fk[2]) |-> t.rows[k][fk[2][j]]])]

(* the names the try block dereferences, in evaluation order: a raw column *)
(* is read before the dimension it is mapped through                       *)
RECURSIVE KeyAccesses(_)
KeyAccesses(fks) ==
    IF fks = <<>> THEN <<>>
    ELSE [j \in 1..Len(Head(fks)[2]) |-> <<"column", Head(fks)[2][j]>>]
         \o << <<"dimension", Head(fks)[3]>> >> \o KeyAccesses(Tail(fks))

Accesses ==
    KeyAccesses(ForeignKeys)
    \o [j \in 1..Len(MeasureColumns) |-> <<"column", MeasureColumns[j]>>]
    \o << <<"column", "tpep_dropoff_datetime">>,
          <<"column", "tpep_pickup_datetime">>,
          <<"column", "store_and_fwd_flag">> >>

Resolves(t, dims, a) ==
    IF a[1] = "column" THEN HasColumn(t, a[2]) ELSE HasKey(dims, a[2])

KeyErrors(t, dims) == {k \in 1..Len(Accesses) : ~Resolves(t, dims, Accesses[k])}

FirstKeyError(t, dims) ==
    Accesses[CHOOSE k \in KeyErrors(t, dims) : \A m \in KeyErrors(t, dims) : k <= m][2]

total_seconds(dropoff, pickup) ==
    IF IsNull(dropoff) \/ IsNull(pickup) THEN NaN ELSE V(dropoff[1] - pickup[1])

RoundedMinutes_truncated(secs) ==
    IF IsNull(secs) THEN NaN ELSE V((secs[1] * 100) \div 60)

(* round(seconds / 60, 2), held in hundredths of a minute: numpy rounds    *)
(* the scaled value to the nearest integer, ties to even                   *)
RoundedMinutes(secs) ==
    IF IsNull(secs) THEN NaN ELSE V(RoundHalfEven(secs[1] * 100, 60))

RECURSIVE AddForeignKeys(_, _, _, _)
AddForeignKeys(fact, t, dims, fks) ==
    IF fks = <<>> THEN fact
    ELSE LET fk == Head(fks)
             dim == Get(dims, fk[3])
             cells == ForeignKeyCells(t, dim, fk)
         IN AddForeignKeys(
                SetColumn(fact, fk[1], MappedDtype(cells, dim, SurrogateKey(fk[3])), cells),
                t, dims, Tail(fks))

RECURSIVE CopyColumns(_, _, _)
CopyColumns(fact, t, cols) ==
    IF cols = <<>> THEN fact
    ELSE CopyColumns(SetColumn(fact, Head(cols), t.dtypes[Head(cols)],
                               Column(t, Head(cols))), t, Tail(cols))

EmptyFrame == [columns |-> <<>>, dtypes |-> <<>>, rows |-> <<>>]

TripIds_deduplicated(t) ==
    [ columns |-> <<"trip_id">>,
      dtypes |-> [c \in {"trip_id"} |-> "int64"],
      rows |-> [k \in 1..Len(drop_duplicates(t.rows)) |->
                  [c \in {"trip_id"} |-> V(k)]] ]

TripIds(t) ==
    [ columns |-> <<"trip_id">>,
      dtypes |-> [c \in {"trip_id"} |-> "int64"],
      rows |-> [k \in 1..Len(t.rows) |-> [c \in {"trip_id"} |-> V(k)]] ]

FactTrips(t, dims) ==
    LET keyed == AddForeignKeys(TripIds(t), t, dims, ForeignKeys)
        measured == CopyColumns(keyed, t, MeasureColumns)
        timed == SetColumn(measured, "trip_duration_minutes", "float64",
                    [k \in 1..Len(t.rows) |->
                        RoundedMinutes(total_seconds(
                            t.rows[k]["tpep_dropoff_datetime"],
                            t.rows[k]["tpep_pickup_datetime"]))])
    IN CopyColumns(timed, t, <<"store_and_fwd_flag">>)

(* dims maps a dimension name to its table *)
creating_facts(t, dims) ==
    IF KeyErrors(t, dims) # {}
    THEN [ok |-> FALSE, table |-> EmptyFrame, what |-> FirstKeyError(t, dims)]
    ELSE [ok |-> TRUE, table |-> FactTrips(t, dims), what |-> ""]

Deref(h, d) == [k \in 1..Len(d) |-> <<d[k][1], h[d[k][2]]>>]

main_creating_facts ==
    /\ pc = "creating_facts"
    /\ LET r == creating_facts(heap[df], Deref(heap, optimized_dimensions))
       IN /\ heap' = Append(heap, r.table)
          /\ facts' = IF r.ok
                      THEN [kind |-> "dict",
                            items |-> << <<"fact_trips", Len(heap) + 1>> >>,
                            ref |-> None]
                      ELSE [kind |-> "DataFrame", items |-> <<>>,
                            ref |-> Len(heap) + 1]
          /\ log' = IF r.ok THEN log
                    ELSE Append(log, LogRec("error", "creating_facts", r.what))
    /\ it' = 1
    /\ pc' = "optimize_facts"
    /\ UNCHANGED <<file, df, dimensions, optimized_dimensions,
                   optimized_fact_trips, status, warehouse, uncaught>>

(* for fact_name, fact in facts.items(): dtype_optimization(fact) *)
main_optimize_fact ==
    /\ pc = "optimize_facts"
    /\ it <= Len(facts.items)
    /\ LET name == facts.items[it][1]
           ref == facts.items[it][2]
           r == dtype_optimization(heap[ref])
       IN /\ heap' = [heap EXCEPT ![ref] = r.table]
          /\ IF r.ok
             THEN /\ optimized_fact_trips' = Put(optimized_fact_trips, name, ref)
                  /\ it' = it + 1
                  /\ UNCHANGED <<pc, uncaught>>
             ELSE /\ pc' = "crashed"
                  /\ uncaught' = Raise("dtype_optimization", r.column)
                  /\ UNCHANGED <<optimized_fact_trips, it>>
    /\ UNCHANGED <<file, df, dimensions, optimized_dimensions, facts, status,
                   warehouse, log>>

main_facts_optimized ==
    /\ pc = "optimize_facts"
    /\ it > Len(facts.items)
    /\ pc' = "load_dimensions"
    /\ it' = 1
    /\ status' = <<>>
    /\ UNCHANGED <<file, heap, df, dimensions, optimized_dimensions, facts,
                   optimized_fact_trips, warehouse, log, uncaught>>

----------------------------------------------------------------------------
(* Loading: load_dataframe_to_bigquery answers True or False *)

AllTrue(s) == \A k \in 1..Len(s) : s[k]

LoadAttempt(table_id, success) == [table_id |-> table_id, success |-> success]

main_load_dimension_stop_on_failure ==
    /\ pc = "load_dimensions"
    /\ it <= Len(optimized_dimensions)
    /\ \E success \in BOOLEAN :
          /\ warehouse' = Append(warehouse,
                                 LoadAttempt(optimized_dimensions[it][1], success))
          /\ log' = IF success THEN log
                    ELSE Append(log, LogRec("error", "load_dimension",
                                            optimized_dimensions[it][1]))
          /\ status' = Append(status, success)
          /\ it' = IF success THEN it + 1 ELSE Len(optimized_dimensions) + 1
    /\ UNCHANGED <<pc, file, heap, df, dimensions, optimized_dimensions, facts,
                   optimized_fact_trips, uncaught>>

main_load_dimension ==
    /\ pc = "load_dimensions"
    /\ it <= Len(optimized_dimensions)
    /\ \E success \in BOOLEAN :
          /\ warehouse' = Append(warehouse,
                                 LoadAttempt(optimized_dimensions[it][1], success))
          /\ log' = IF success THEN log
                    ELSE Append(log, LogRec("error", "load_dimension",
                                            optimized_dimensions[it][1]))
          /\ status' = Append(status, success)
    /\ it' = it + 1
    /\ UNCHANGED <<pc, file, heap, df, dimensions, optimized_dimensions, facts,
                   optimized_fact_trips, uncaught>>

main_report_dimensions ==
    /\ pc = "load_dimensions"
    /\ it > Len(optimized_dimensions)
    /\ log' = Append(log, IF AllTrue(status)
                          THEN LogRec("info", "report", "All Dimensions successfully loaded")
                          ELSE LogRec("error", "report", "Failed to load all Dimensions"))
    /\ status' = <<>>
    /\ it' = 1
    /\ pc' = "load_facts"
    /\ UNCHANGED <<file, heap, df, dimensions, optimized_dimensions, facts,
                   optimized_fact_trips, warehouse, uncaught>>

main_load_fact ==
    /\ pc = "load_facts"
    /\ it <= Len(optimized_fact_trips)
    /\ \E success \in BOOLEAN :
          /\ warehouse' = Append(warehouse,
                                 LoadAttempt(optimized_fact_trips[it][1], success))
          /\ log' = IF success THEN log
                    ELSE Append(log, LogRec("error", "load_fact",
                                            optimized_fact_trips[it][1]))
          /\ status' = Append(status, success)
    /\ it' = it + 1
    /\ UNCHANGED <<pc, file, heap, df, dimensions, optimized_dimensions, facts,
                   optimized_fact_trips, uncaught>>

main_report_facts ==
    /\ pc = "load_facts"
    /\ it > Len(optimized_fact_trips)
    /\ log' = Append(log, IF AllTrue(status)
                          THEN LogRec("info", "report", "All Facts successfully loaded")
                          ELSE LogRec("error", "report", "Failed to load all Facts"))
    /\ pc' = "done"
    /\ UNCHANGED <<file, heap, df, dimensions, optimized_dimensions, facts,
                   optimized_fact_trips, status, warehouse, it, uncaught>>

Next ==
    \/ read_csv_ok
    \/ read_csv_missing
    \/ main_datetime_conversion
    \/ main_dtype_optimization
    \/ main_creating_dimensions
    \/ main_optimize_dimension
    \/ main_dimensions_optimized
    \/ main_creating_facts
    \/ main_optimize_fact
    \/ main_facts_optimized
    \/ main_load_dimension
    \/ main_report_dimensions
    \/ main_load_fact
    \/ main_report_facts

Spec == Init /\ [][Next]_vars


----------------------------------------------------------------------------
(* Properties *)

RawTable == heap[df]

HasFactTable == facts.kind = "dict" /\ HasKey(facts.items, "fact_trips")
FactTable == heap[Get(facts.items, "fact_trips")]

DimensionTable(name) == heap[Get(dimensions, name)]

UniqueOn(rows, cols) ==
    \A a, b \in 1..Len(rows) :
        (\A c \in cols : rows[a][c] = rows[b][c]) => a = b

(* C1: in every dimension table returned by creating_dimensions no two    *)
(* rows share a surrogate key and no two rows share a natural-key tuple.  *)
C1_DimensionKeysUnique ==
    \A k \in 1..Len(dimensions) :
        LET name == dimensions[k][1]
            rows == heap[dimensions[k][2]].rows
        IN /\ UniqueOn(rows, {SurrogateKey(name)})
           /\ UniqueOn(rows, SeqToSet(NaturalKey(name)))

C1_Witness ==
    /\ HasKey(dimensions, "dim_pickup_location")
    /\ HasKey(dimensions, "dim_vendor")
    /\ Len(RawTable.rows) = 2
    /\ Len(DimensionTable("dim_pickup_location").rows) = 2
    /\ Len(DimensionTable("dim_vendor").rows) = 1

(* C2: every non-null foreign key of the fact table is a surrogate key of *)
(* a row of the dimension it refers to.                                   *)
C2_ForeignKeysResolve ==
    HasFactTable =>
        \A f \in 1..Len(ForeignKeys) :
            LET fk == ForeignKeys[f]
                dim == heap[Get(optimized_dimensions, fk[3])]
            IN \A k \in 1..Len(FactTable.rows) :
                  \/ IsNull(FactTable.rows[k][fk[1]])
                  \/ \E d \in 1..Len(dim.rows) :
                        dim.rows[d][SurrogateKey(fk[3])] = FactTable.rows[k][fk[1]]

C2_Witness ==
    /\ HasFactTable
    /\ Len(FactTable.rows) = 2
    /\ FactTable.rows[1]["dim_vendor_key"] = V(0)
    /\ FactTable.rows[2]["dim_vendor_key"] = V(1)
    /\ FactTable.rows[2]["dim_ratecode_key"] = V(0)

(* C3: a fact table that comes out of creating_facts has one row per raw  *)
(* row, numbered in raw-table row order.                                  *)
C3_RowCountInvariant ==
    HasFactTable =>
        /\ Len(FactTable.rows) = Len(RawTable.rows)
        /\ Len(FactTable.rows) = Len(file.rows)
        /\ \A k \in 1..Len(FactTable.rows) : FactTable.rows[k]["trip_id"] = V(k)

C3_Witness ==
    /\ HasFactTable
    /\ Len(FactTable.rows) = 2
    /\ file.rows[1] = file.rows[2]

Buildable(t, name) == MissingColumns(t, SourceColumns(name)) = {}

DimensionsReturned ==
    pc \in {"optimize_dimensions", "creating_facts", "optimize_facts",
            "load_dimensions", "load_facts", "done"}
    /\ df # None

(* C4: when one dimension cannot be built, the other dimensions are still *)
(* built: every dimension whose source columns exist is in the result.    *)
C4_OtherDimensionsStillBuilt ==
    DimensionsReturned =>
        \A k \in 1..Len(DimensionNames) :
            Buildable(RawTable, DimensionNames[k]) => HasKey(dimensions, DimensionNames[k])

FactsReturned ==
    pc \in {"optimize_facts", "load_dimensions", "load_facts", "done"} /\ df # None

AbsentDimensions == SeqToSet(DimensionNames) \ Keys(optimized_dimensions)

(* C5: when a required dimension is absent from the mapping, the fact     *)
(* builder reports an error naming a missing dimension, returns no fact   *)
(* table, and no fact table is handed to the loader.                      *)
C5_MissingDimensionNamed ==
    (FactsReturned /\ AbsentDimensions # {}) =>
        /\ \E k \in 1..Len(log) :
              /\ log[k].stage = "creating_facts"
              /\ log[k].level = "error"
              /\ log[k].what \in AbsentDimensions
        /\ ~HasFactTable
        /\ \A k \in 1..Len(warehouse) : warehouse[k].table_id # "fact_trips"

Reported(what) == \E k \in 1..Len(log) : log[k].stage = "report" /\ log[k].what = what

LoadedOk(table_id) ==
    \E k \in 1..Len(warehouse) :
        warehouse[k].table_id = table_id /\ warehouse[k].success

(* C6: aggregate success is reported only if every table of the run (the  *)
(* six dimensions, respectively the fact table) was loaded without error. *)
C6_SuccessOnlyIfAllLoaded ==
    /\ Reported("All Dimensions successfully loaded") =>
          \A k \in 1..Len(DimensionNames) : LoadedOk(DimensionNames[k])
    /\ Reported("All Facts successfully loaded") => LoadedOk("fact_trips")

StagePositions ==
    {"datetime_conversion", "dtype_optimization", "creating_dimensions",
     "optimize_dimensions", "creating_facts", "optimize_facts"}

(* C7: no stage changes a table that its caller passed in: every table    *)
(* that exists before a stage runs is the same after it.                  *)
C7_NoInPlaceMutation ==
    [][(pc \in StagePositions) =>
          (\A r \in 1..Len(heap) : heap'[r] = heap[r])]_vars

(* C8: dtype_optimization never aborts: a column that fails is left as it *)
(* was and the call returns.                                              *)
C8_NormalizerNeverAborts ==
    uncaught.stage # "dtype_optimization"

OptimizedRefs ==
    (IF pc \in {"read_csv", "datetime_conversion", "dtype_optimization", "crashed"}
        \/ df = None
     THEN {} ELSE {df})
    \cup {optimized_dimensions[k][2] : k \in 1..Len(optimized_dimensions)}
    \cup {optimized_fact_trips[k][2] : k \in 1..Len(optimized_fact_trips)}

(* C9: running dtype_optimization on its own output changes no column    *)
(* type and no value.                                                     *)
C9_NarrowingIdempotent ==
    \A r \in OptimizedRefs :
        /\ dtype_optimization(heap[r]).ok
        /\ dtype_optimization(heap[r]).table = heap[r]

DtypesOf(t) == {t.dtypes[c] : c \in DOMAIN t.dtypes}

C9_Witness ==
    /\ pc = "load_dimensions"
    /\ HasFactTable
    /\ "int16" \in DtypesOf(RawTable)
    /\ "float64" \in DtypesOf(RawTable)
    /\ "float32" \in DtypesOf(RawTable)
    /\ "int8" \in DtypesOf(FactTable)

(* C10: for a fact row with both instants present, trip_duration_minutes  *)
(* in hundredths of a minute is the integer nearest to seconds * 100 / 60 *)
(* (never a tie), 750 seconds give 12.50, and rows of zero or negative    *)
(* duration are kept.                                                     *)
C10_DurationRounded ==
    HasFactTable =>
        /\ Len(FactTable.rows) = Len(file.rows)
        /\ \A k \in 1..Len(FactTable.rows) :
              LET pickup == pd_to_datetime(file.rows[k]["tpep_pickup_datetime"])
                  dropoff == pd_to_datetime(file.rows[k]["tpep_dropoff_datetime"])
                  minutes == FactTable.rows[k]["trip_duration_minutes"]
              IN (~IsNull(pickup) /\ ~IsNull(dropoff)) =>
                    /\ ~IsNull(minutes)
                    /\ 2 * Abs(60 * minutes[1] - 100 * (dropoff[1] - pickup[1])) < 60
                    /\ (dropoff[1] - pickup[1] = 750 => minutes[1] = 1250)

C10_Witness ==
    /\ HasFactTable
    /\ Len(FactTable.rows) = 2
    /\ FactTable.rows[1]["trip_duration_minutes"] = V(1250)
    /\ FactTable.rows[2]["trip_duration_minutes"] = V(-1250)

(* the coded dimensions: <<dimension, natural-key column, label column>> *)
CodedDimensions ==
    << <<"dim_vendor", "VendorID", "vendor_name">>,
       <<"dim_ratecode", "RatecodeID", "ratecode_description">>,
       <<"dim_payment_type", "payment_type", "payment_type_description">> >>

LabelsOf(name) ==
    IF name = "dim_vendor" THEN vendor_dict
    ELSE IF name = "dim_ratecode" THEN ratecode_dict
    ELSE payment_dict

CodesOf(t, col) == {t.rows[k][col] : k \in 1..Len(t.rows)}

(* C11: in dim_vendor, dim_ratecode and dim_payment_type the label of a   *)
(* row is the fixed mapping at the row's code (vendor 1 gives 'Creative   *)
(* Mobile Technologies, LLC'); a code absent from the mapping (vendor 99) *)
(* has a null label and still has its row, and the dimension is built.    *)
C11_LabelsFollowMapping ==
    DimensionsReturned =>
        \A c \in 1..Len(CodedDimensions) :
            LET name == CodedDimensions[c][1]
                col == CodedDimensions[c][2]
                label == CodedDimensions[c][3]
            in_dict(code) == code \in DOMAIN LabelsOf(name)
            IN /\ (\A n \in 1..Len(DimensionNames) :
                      Buildable(RawTable, DimensionNames[n])) => HasKey(dimensions, name)
               /\ HasKey(dimensions, name) =>
                  /\ CodesOf(DimensionTable(name), col) = CodesOf(RawTable, col)
                  /\ \A k \in 1..Len(DimensionTable(name).rows) :
                        LET row == DimensionTable(name).rows[k]
                        IN /\ in_dict(row[col][1]) =>
                                row[label] = V(LabelsOf(name)[row[col][1]])
                           /\ ~in_dict(row[col][1]) => IsNull(row[label])
                           /\ (name = "dim_vendor" /\ row[col] = V(1)) =>
                                row[label] = V("Creative Mobile Technologies, LLC")
                           /\ (name = "dim_vendor" /\ row[col] = V(99)) =>
                                IsNull(row[label])

C11_Witness ==
    /\ pc = "creating_facts"
    /\ HasKey(dimensions, "dim_vendor")
    /\ Len(DimensionTable("dim_vendor").rows) = 2
    /\ DimensionTable("dim_vendor").rows[1]["VendorID"] = V(99)
    /\ IsNull(DimensionTable("dim_vendor").rows[1]["vendor_name"])
    /\ DimensionTable("dim_vendor").rows[2]["vendor_name"]
          = V("Creative Mobile Technologies, LLC")

(* the values of the two timestamp columns as datetime_conversion leaves  *)
(* them: an instant, or the missing marker for a text that is no timestamp *)
StampValues ==
    { pd_to_datetime(file.rows[k][DatetimeColumns[c]]) :
        k \in 1..Len(file.rows), c \in 1..Len(DatetimeColumns) }

(* C12: dim_datetime has exactly one row for each distinct value of the   *)
(* pickup and dropoff columns (their de-duplicated union, nothing more    *)
(* and nothing less), so both instants of every raw row are natural keys  *)
(* of dim_datetime; the calendar attributes are columns of dim_datetime   *)
(* and the raw table gains no calendar column.                            *)
C12_DatetimeDimensionIsUnion ==
    HasKey(dimensions, "dim_datetime") =>
        LET dim == DimensionTable("dim_datetime")
        IN /\ CodesOf(dim, "full_datetime") = StampValues
           /\ UniqueOn(dim.rows, {"full_datetime"})
           /\ Len(dim.rows) = Cardinality(StampValues)
           /\ \A k \in 1..Len(RawTable.rows), c \in 1..Len(DatetimeColumns) :
                 \E d \in 1..Len(dim.rows) :
                     dim.rows[d]["full_datetime"] = RawTable.rows[k][DatetimeColumns[c]]
           /\ SeqToSet(CalendarColumns) \subseteq SeqToSet(dim.columns)
           /\ SeqToSet(CalendarColumns) \cap SeqToSet(RawTable.columns) = {}
           /\ RawTable.columns = file.columns

C12_Witness ==
    /\ HasKey(dimensions, "dim_datetime")
    /\ Len(RawTable.rows) = 2
    /\ RawTable.rows[1]["tpep_dropoff_datetime"] = RawTable.rows[2]["tpep_pickup_datetime"]
    /\ RawTable.rows[1]["tpep_pickup_datetime"] = V(0)
    /\ RawTable.rows[2]["tpep_pickup_datetime"] = V(750)
    /\ IsNull(RawTable.rows[2]["tpep_dropoff_datetime"])
    /\ Len(DimensionTable("dim_datetime").rows) = 3

Attempted(table_id, before) ==
    \E j \in 1..(before - 1) : warehouse[j].table_id = table_id

(* C13: fact_trips is handed to the loader only after a load has been     *)
(* attempted for each of the six dimension tables, all of them built, and *)
(* a failed dimension load does not skip the attempts that follow it.     *)
C13_FactLoadedAfterDimensions ==
    /\ \A k \in 1..Len(warehouse) :
          warehouse[k].table_id = "fact_trips" =>
              \A n \in 1..Len(DimensionNames) :
                  /\ HasKey(dimensions, DimensionNames[n])
                  /\ Attempted(DimensionNames[n], k)
    /\ pc \in {"load_facts", "done"} =>
          \A n \in 1..Len(optimized_dimensions) :
              Attempted(optimized_dimensions[n][1], Len(warehouse) + 1)
    /\ pc = "load_dimensions" =>
          \A n \in 1..(it - 1) :
              n <= Len(optimized_dimensions) =>
                  Attempted(optimized_dimensions[n][1], Len(warehouse) + 1)

C13_Witness ==
    /\ pc = "done"
    /\ Len(warehouse) = 7
    /\ ~warehouse[1].success
    /\ ~warehouse[4].success
    /\ warehouse[7].table_id = "fact_trips"

====
